---- MODULE Spec2Model ----
(***************************************************************************)
(* Data-access layer of applyr: the user_profiles collection with its      *)
(* soft-delete lifecycle (db/utils.ts, profile.model.ts, the profile       *)
(* services), the pagination helper and the transaction pattern of the     *)
(* service layer guide.                                                    *)
(***************************************************************************)
EXTENDS Integers, Sequences, FiniteSets, TLC

\* ------------------------------------------------------------------ bounds
MaxTime == 2
MaxDocs == 2
MaxItems == 3
MaxWrites == 2
MaxSignals == 2

Users == {"u1", "u2"}
Headlines == {"h1"}
Times == 1..MaxTime
Ids == 1..MaxDocs

\* ------------------------------------------------------------------ values
\* A nullable Date: null is the empty tuple, a Date is the one-tuple of its time.
Null == <<>>
Date(t) == <<t>>
\* headline is optional in IUserProfile; an absent headline is Undefined.
Undefined == "undefined"
\* The result of a lookup that matched nothing (findOne(...) === null).
NullDoc == [null |-> TRUE]

\* Object spread { ...a, ...b }: the keys of b win.
Spread(a, b) == [k \in (DOMAIN a) \cup (DOMAIN b) |-> IF k \in DOMAIN b THEN b[k] ELSE a[k]]

\* ------------------------------------------------------------ db/utils.ts
timestampFields(t) == [createdAt |-> Date(t), updatedAt |-> Date(t)]

softDeleteFields == [isDeleted |-> FALSE, deletedAt |-> Null]

\* Query clauses: { field: value } and { field: { $ne: value } }.
Eq(v) == [op |-> "eq", val |-> v]
Ne(v) == [op |-> "ne", val |-> v]

\* Faulty variant: the soft-delete filter has no clause.
excludeDeleted_NoClause == <<>>

excludeDeleted == [isDeleted |-> Ne(TRUE)]

touchUpdatedAt(t) == [updatedAt |-> Date(t)]

\* Faulty variant: the flag is set and the timestamp is left out.
softDeleteUpdate_NoTimestamp(t) == [isDeleted |-> TRUE, deletedAt |-> Null]

softDeleteUpdate(t) == [isDeleted |-> TRUE, deletedAt |-> Date(t)]

\* Faulty variant: the flag is cleared and the timestamp is kept.
restoreUpdate_FlagOnly == [isDeleted |-> FALSE]

restoreUpdate == [isDeleted |-> FALSE, deletedAt |-> Null]

\* ------------------------------------------------------------ the storage
\* Faulty variant: the $ne clauses of a filter are ignored.
Matches_IgnoresNe(d, f) ==
    \A k \in DOMAIN f : f[k].op = "eq" => d[k] = f[k].val

\* A document matches a filter when every clause of the filter holds of it.
Matches(d, f) ==
    \A k \in DOMAIN f :
        IF f[k].op = "eq" THEN d[k] = f[k].val ELSE d[k] # f[k].val

Matching(D, f) == {d \in D : Matches(d, f)}

\* Faulty variant: the count ignores the filter.
countDocuments_All(D, f) == Cardinality(D)

countDocuments(D, f) == Cardinality(Matching(D, f))

findOne(D, f) == IF Matching(D, f) = {} THEN NullDoc ELSE CHOOSE d \in Matching(D, f) : TRUE

\* $set: the named fields are overwritten, the others are kept.
ApplySet(d, upd) == [k \in DOMAIN d |-> IF k \in DOMAIN upd THEN upd[k] ELSE d[k]]

\* pre(["updateOne", "findOneAndUpdate"]): this.set({ updatedAt: new Date() }).
preUpdate(upd, t) == Spread(upd, [updatedAt |-> Date(t)])

\* updateOne / findOneAndUpdate: the first matching document is updated in place.
updateOne(D, f, upd, t) ==
    IF Matching(D, f) = {} THEN D
    ELSE (D \ {findOne(D, f)}) \cup {ApplySet(findOne(D, f), preUpdate(upd, t))}

\* Faulty variant: the collection has no unique index on userId.
DuplicateKey_Never(D, userId) == FALSE

\* The unique index on userId: a save of a second document for a userId is refused.
DuplicateKey(D, userId) == \E d \in D : d.userId = userId

\* new UserProfile(fields): schema defaults, then the given fields.
NewUserProfile(id, fields, t) ==
    Spread([_id |-> id, headline |-> Undefined, skills |-> <<>>, preferences |-> <<>>]
               @@ timestampFields(t) @@ softDeleteFields, fields)

\* pre("save"): this.updatedAt = new Date().
preSave(d, t) == [d EXCEPT !.updatedAt = Date(t)]

\* ------------------------------------------------- config/constants.ts
DEFAULT_PAGE == 1
DEFAULT_LIMIT == 20
MAX_LIMIT == 100

\* ------------------------------------------------- db/utils.ts: paginate
Max(a, b) == IF a >= b THEN a ELSE b
Min(a, b) == IF a <= b THEN a ELSE b

\* options.key ?? default, for options a Partial<PaginationOptions>
Coalesce(options, key, default) == IF key \in DOMAIN options THEN options[key] ELSE default

\* Faulty variant: the quotient is rounded down.
Ceil_Floor(a, b) == a \div b

\* Math.ceil(a / b) for a >= 0 and b >= 1
Ceil(a, b) == (a + b - 1) \div b

EffectivePage(options) == Max(1, Coalesce(options, "page", DEFAULT_PAGE))

\* Faulty variant: the limit is not capped by MAX_LIMIT.
EffectiveLimit_Unclamped(options) == Max(1, Coalesce(options, "limit", DEFAULT_LIMIT))

EffectiveLimit(options) == Min(Max(1, Coalesce(options, "limit", DEFAULT_LIMIT)), MAX_LIMIT)

EffectiveSort(options) == Coalesce(options, "sort", "createdAt")

EffectiveOrder(options) == IF Coalesce(options, "order", "desc") = "asc" THEN 1 ELSE -1

\* Faulty variant: the offset counts the requested page as well.
Skip_FromPage(options) == EffectivePage(options) * EffectiveLimit(options)

Skip(options) == (EffectivePage(options) - 1) * EffectiveLimit(options)

\* Faulty variant: the soft-delete filter is not combined into the query.
combinedQuery_NoExclusion(query) == query

combinedQuery(query) == Spread(excludeDeleted, query)

\* The number a document is sorted by: its _id, or the time of one of its dates.
SortKey(d, field) == IF field = "_id" THEN d._id ELSE d[field][1]

\* The orders find(...).sort({ [sort]: order }) may return S in: documents with equal
\* keys come in an order the storage engine chooses.
Sorted(S, field, order) ==
    {s \in [1..Cardinality(S) -> S] :
        /\ \A i, j \in DOMAIN s : i # j => s[i] # s[j]
        /\ \A i, j \in DOMAIN s :
               i < j => order * SortKey(s[i], field) <= order * SortKey(s[j], field)}

\* Faulty variant: a skip past the end falls back to the first window.
Window_FallsBack(s, skip, limit) ==
    IF skip >= Len(s) THEN SubSeq(s, 1, Min(Len(s), limit))
    ELSE SubSeq(s, skip + 1, Min(Len(s), skip + limit))

\* .skip(skip).limit(limit)
Window(s, skip, limit) == SubSeq(s, skip + 1, Min(Len(s), skip + limit))

\* The result of paginate when find returned the matching documents in the order s.
PaginatedResult(D, query, options, s) ==
    [items |-> Window(s, Skip(options), EffectiveLimit(options)),
     pagination |-> [page |-> EffectivePage(options),
                     limit |-> EffectiveLimit(options),
                     total |-> countDocuments(D, combinedQuery(query)),
                     pages |-> Ceil(countDocuments(D, combinedQuery(query)),
                                    EffectiveLimit(options))]]

\* Every result paginate may return on the collection D.
paginate(D, query, options) ==
    {PaginatedResult(D, query, options, s) :
        s \in Sorted(Matching(D, combinedQuery(query)), EffectiveSort(options),
                     EffectiveOrder(options))}

\* ------------------------------------------------------------------ errors
AppError(kind, message, statusCode, code) ==
    [kind |-> kind, message |-> message, statusCode |-> statusCode, code |-> code]

\* Faulty variant: the ownership error is built with the status and code of NotFound.
ForbiddenError_AsNotFound(message) == AppError("NotFoundError", message, 404, "NOT_FOUND")

ForbiddenError(message) == AppError("ForbiddenError", message, 403, "FORBIDDEN")

\* Faulty variant: a missing resource is reported as an internal error.
NotFoundError_AsInternal(resource) ==
    AppError("InternalError", <<"Internal server error">>, 500, "INTERNAL_ERROR")

NotFoundError(resource) == AppError("NotFoundError", <<resource, "not found">>, 404, "NOT_FOUND")

\* The storage driver's own error for a violated unique index (no AppError).
MongoDuplicateKeyError == [kind |-> "MongoServerError", message |-> <<"E11000 duplicate key">>,
                           statusCode |-> 0, code |-> "11000"]

NoError == [kind |-> "none", message |-> <<>>, statusCode |-> 0, code |-> "none"]

\* ------------------------------------------------------------------- state
\* docs     the user_profiles collection
\* now      the clock read by new Date() / Date.now
\* nextId   the next _id the driver hands out
\* last     the last completed call: what it was and what its caller observed
\* snap     history: per _id, the document as it was when it was soft-deleted, until
\*          the document is next updated, restored or erased
\* denials  history: the errors callers observed for ids of records they do not own
\* purged   history: the _ids of the records that were hard-deleted
\* pag      the paginate call: its arguments, whether its two queries succeeded and
\*          were answered, and what it returned or threw
\* tx       the runInTransaction invocation: its position, session and outcome
\* flight   the service calls of concurrent requests that are between two of their
\*          storage operations
\* http     one request through asyncHandler and errorHandler
\* conn     the connectDatabase call and the isConnected flag
\* proc     the process: HTTP server, database connection, shutdown timer and exit
VARIABLES docs, now, nextId, last, snap, denials, purged, pag, tx, flight, http, conn, proc

vars == <<docs, now, nextId, last, snap, denials, purged, pag, tx, flight, http, conn, proc>>

Void == [void |-> TRUE]

\* A completed call: the operation, the caller, the id it named (0 for none), the
\* error thrown (NoError for none), the value returned, the record it matched before
\* writing, and for a restore what snap held of the record.
Call(op, user, id, error, value, pre) ==
    [op |-> op, user |-> user, id |-> id, error |-> error, value |-> value, pre |-> pre,
     was |-> IF op = "restore" /\ error = NoError THEN snap[id] ELSE NullDoc]

Ok(c) == c.error = NoError

NoSnap == [i \in Ids |-> NullDoc]

NoPagination == [page |-> 0, limit |-> 0, total |-> 0, pages |-> 0]

\* countedOn and foundOn: the _ids that matched when the count and the find query ran.
PagIdle == [pc |-> "idle", query |-> <<>>, options |-> <<>>, countOk |-> TRUE,
            findOk |-> TRUE, counted |-> FALSE, found |-> FALSE, countedOn |-> {},
            foundOn |-> {}, error |-> NoError,
            result |-> [items |-> <<>>, pagination |-> NoPagination]]

NoWork == [writes |-> <<>>, failAt |-> 0, err |-> NoError, ret |-> "none"]

TxIdle == [pc |-> "idle", work |-> NoWork, pending |-> <<>>, issued |-> <<>>,
           before |-> {}, state |-> "none", commits |-> 0, aborts |-> 0,
           abortRaised |-> FALSE, released |-> 0, caught |-> NoError,
           outcome |-> [kind |-> "none", error |-> NoError, value |-> "none"]]

\* The concurrent requests.
Callers == {"c1", "c2"}

FlightIdle == [op |-> "idle", pc |-> "idle", user |-> "none", id |-> 0, fields |-> <<>>,
               loaded |-> NullDoc]

NoFlight == [c \in Callers |-> FlightIdle]

NoResponse == [status |-> 0, body |-> <<>>]

HttpIdle == [pc |-> "idle", env |-> "none",
             handler |-> [mode |-> "none", error |-> [error |-> NoError, details |-> <<>>, stack |-> <<>>]],
             nextCalls |-> <<>>, escaped |-> NoError, response |-> NoResponse]

ConnIdle == [pc |-> "idle", retries |-> 0, attempts |-> 0, waits |-> <<>>, errors |-> <<>>,
             isConnected |-> FALSE, outcome |-> [kind |-> "none", error |-> NoError]]

ProcIdle == [pc |-> "idle", server |-> "none", db |-> "disconnected", signals |-> 0,
             closing |-> 0, timers |-> 0, exit |-> -1, trace |-> <<>>]

Init ==
    /\ docs = {}
    /\ now = 1
    /\ nextId = 1
    /\ last = Call("none", "none", 0, NoError, Void, NullDoc)
    /\ snap = NoSnap
    /\ denials = {}
    /\ purged = {}
    /\ pag = PagIdle
    /\ tx = TxIdle
    /\ flight = NoFlight
    /\ http = HttpIdle
    /\ conn = ConnIdle
    /\ proc = ProcIdle

\* Time passes between (and never inside) the calls of this sequential specification.
Tick ==
    /\ now < MaxTime
    /\ now' = now + 1
    /\ UNCHANGED <<docs, nextId, last, snap, denials, purged, pag, tx, flight, http, conn, proc>>

\* --------------------------------------------- profile services: queries
\* Faulty variant: the lookup by userId without the isDeleted clause.
ActiveProfile_AnyState(userId) == [userId |-> Eq(userId)]

\* Faulty variant: the lookup without the userId clause.
ActiveProfile_AnyUser(userId) == [isDeleted |-> Ne(TRUE)]

ActiveProfile(userId) == [userId |-> Eq(userId), isDeleted |-> Ne(TRUE)]

GetProfileByUserId(userId) ==
    LET profile == findOne(docs, ActiveProfile(userId)) IN
    /\ last' = IF profile = NullDoc
               THEN Call("getProfileByUserId", userId, 0, NotFoundError("Profile"), Void, NullDoc)
               ELSE Call("getProfileByUserId", userId, 0, NoError, profile, NullDoc)
    /\ UNCHANGED <<docs, now, nextId, snap, denials, purged, pag, tx, flight, http, conn, proc>>

FindProfileByUserId(userId) ==
    /\ last' = Call("findProfileByUserId", userId, 0, NoError,
                     findOne(docs, ActiveProfile(userId)), NullDoc)
    /\ UNCHANGED <<docs, now, nextId, snap, denials, purged, pag, tx, flight, http, conn, proc>>

ProfileExists(userId) ==
    /\ last' = Call("profileExists", userId, 0, NoError,
                     [exists |-> countDocuments(docs, ActiveProfile(userId)) > 0], NullDoc)
    /\ UNCHANGED <<docs, now, nextId, snap, denials, purged, pag, tx, flight, http, conn, proc>>

\* ------------------------------------------- profile services: mutations
\* new UserProfile(fields) followed by save(): the outcome of the save.
SaveNew(op, userId, fields) ==
    LET doc == preSave(NewUserProfile(nextId, fields, now), now) IN
    IF DuplicateKey(docs, userId)
    THEN /\ last' = Call(op, userId, 0, MongoDuplicateKeyError, Void, NullDoc)
         /\ UNCHANGED <<docs, nextId>>
    ELSE /\ nextId <= MaxDocs
         /\ docs' = docs \cup {doc}
         /\ nextId' = nextId + 1
         /\ last' = Call(op, userId, doc._id, NoError, doc, NullDoc)

CreateProfile(userId) ==
    /\ SaveNew("createProfile", userId, [userId |-> userId])
    /\ UNCHANGED <<now, snap, denials, purged, pag, tx, flight, http, conn, proc>>

GetOrCreateProfile(userId) ==
    LET existing == findOne(docs, ActiveProfile(userId)) IN
    /\ IF existing # NullDoc
       THEN /\ last' = Call("getOrCreateProfile", userId, existing._id, NoError, existing, NullDoc)
            /\ UNCHANGED <<docs, nextId>>
       ELSE SaveNew("getOrCreateProfile", userId, [userId |-> userId])
    /\ UNCHANGED <<now, snap, denials, purged, pag, tx, flight, http, conn, proc>>

\* Faulty variant: the input type admits the owner's id.
UpdateProfileInputs_WithUserId ==
    {<<>>} \cup {[headline |-> h] : h \in Headlines} \cup {[userId |-> u] : u \in Users}

\* UpdateProfileInput: each of its fields given or left out.
UpdateProfileInputs == {<<>>} \cup {[headline |-> h] : h \in Headlines}

UpdateProfile(userId, input) ==
    LET f == ActiveProfile(userId)
        before == findOne(docs, f)
        after == updateOne(docs, f, Spread(input, touchUpdatedAt(now)), now)
    IN
    /\ IF before # NullDoc
       THEN /\ docs' = after
            /\ last' = Call("updateProfile", userId, before._id, NoError,
                             findOne(after, f), before)
            /\ UNCHANGED nextId
       ELSE SaveNew("updateProfile", userId, Spread([userId |-> userId], input))
    /\ snap' = IF before = NullDoc THEN snap ELSE [snap EXCEPT ![before._id] = NullDoc]
    /\ UNCHANGED <<now, denials, purged, pag, tx, flight, http, conn, proc>>

DeleteProfile(userId) ==
    LET f == ActiveProfile(userId)
        before == findOne(docs, f)
    IN
    /\ docs' = updateOne(docs, f, softDeleteUpdate(now), now)
    /\ last' = Call("deleteProfile", userId, IF before = NullDoc THEN 0 ELSE before._id,
                     NoError, Void, before)
    /\ snap' = IF before = NullDoc THEN snap ELSE [snap EXCEPT ![before._id] = before]
    /\ UNCHANGED <<now, nextId, denials, purged, pag, tx, flight, http, conn, proc>>

\* UpdateSkillsInput and UpdatePreferencesInput
SkillsInputs == {[skills |-> <<"ts">>]}

PreferencesInputs == {[preferences |-> [remote |-> TRUE]]}

\* findOneAndUpdate on the caller's active profile with the update set;
\* when none matches, a new document with the given fields is saved.
UpdateOrCreate(op, userId, set, fields) ==
    LET f == ActiveProfile(userId)
        before == findOne(docs, f)
        after == updateOne(docs, f, set, now)
    IN
    /\ IF before # NullDoc
       THEN /\ docs' = after
            /\ last' = Call(op, userId, before._id, NoError, findOne(after, f), before)
            /\ UNCHANGED nextId
       ELSE SaveNew(op, userId, Spread([userId |-> userId], fields))
    /\ snap' = IF before = NullDoc THEN snap ELSE [snap EXCEPT ![before._id] = NullDoc]
    /\ UNCHANGED <<now, denials, purged, pag, tx, flight, http, conn, proc>>

\* { skills: input.skills, ...touchUpdatedAt() }
SkillsSet(input) == Spread([skills |-> input.skills], touchUpdatedAt(now))

UpdateSkills(userId, input) ==
    UpdateOrCreate("updateSkills", userId, SkillsSet(input), [skills |-> input.skills])

\* $set: { "preferences.<key>": value, ..., ...touchUpdatedAt() }: the given keys of the
\* matched profile's preferences are overwritten and its other keys kept.
PreferencesSet(userId, input) ==
    LET profile == findOne(docs, ActiveProfile(userId)) IN
    IF profile = NullDoc THEN touchUpdatedAt(now)
    ELSE Spread([preferences |-> Spread(profile.preferences, input.preferences)],
                touchUpdatedAt(now))

UpdatePreferences(userId, input) ==
    UpdateOrCreate("updatePreferences", userId, PreferencesSet(userId, input),
                   [preferences |-> input.preferences])

\* The four writes by userId, one call after the other: a profile comes into being
\* through the create branch of an update.
NextWrites ==
    \/ Tick
    \/ \E u \in Users, input \in UpdateProfileInputs : UpdateProfile(u, input)
    \/ \E u \in Users, input \in SkillsInputs : UpdateSkills(u, input)
    \/ \E u \in Users, input \in PreferencesInputs : UpdatePreferences(u, input)
    \/ \E u \in Users : DeleteProfile(u)

SpecWrites == Init /\ [][NextWrites]_vars

\* ------------------------------------ the ownership-guarded lifecycle by id
\* assertOwnership(record, userId): the error it throws, NoError when it returns.
assertOwnership(record, userId) ==
    IF record.userId = userId THEN NoError ELSE ForbiddenError(<<"Forbidden">>)

ById(id) == [_id |-> Eq(id)]

ActiveById(id) == Spread(excludeDeleted, ById(id))

\* The common shape: load, NotFound when nothing is loaded, assertOwnership, then the
\* write. Loaded is the record the lookup found, Written the collection after the write.
Guarded(op, id, userId, Loaded, Written, value) ==
    LET error == IF Loaded = NullDoc THEN NotFoundError("Resource")
                 ELSE assertOwnership(Loaded, userId)
        owned == \E d \in docs : d._id = id /\ d.userId = userId
    IN
    /\ IF error # NoError
       THEN /\ last' = Call(op, userId, id, error, Void, Loaded)
            /\ UNCHANGED docs
       ELSE /\ docs' = Written
            /\ last' = Call(op, userId, id, NoError, value, Loaded)
    /\ denials' = IF error # NoError /\ ~owned THEN denials \cup {error} ELSE denials

Replace(D, old, new) == (D \ {old}) \cup {new}

\* Faulty variant: the hard delete marks the record deleted and keeps it stored.
deleteOne_KeepsRecord(D, rec) == Replace(D, rec, ApplySet(rec, softDeleteUpdate(MaxTime)))

\* deleteOne: the record is removed from the collection.
deleteOne(D, rec) == D \ {rec}

Update(id, userId, patch) ==
    LET rec == findOne(docs, ActiveById(id))
        new == preSave(ApplySet(rec, patch), now)
    IN
    /\ Guarded("update", id, userId, rec, Replace(docs, rec, new), new)
    /\ snap' = IF rec # NullDoc /\ assertOwnership(rec, userId) = NoError
               THEN [snap EXCEPT ![id] = NullDoc] ELSE snap
    /\ UNCHANGED <<now, nextId, purged, pag, tx, flight, http, conn, proc>>

SoftDelete(id, userId) ==
    LET rec == findOne(docs, ActiveById(id))
        new == preSave(ApplySet(rec, softDeleteUpdate(now)), now)
    IN
    /\ Guarded("softDelete", id, userId, rec, Replace(docs, rec, new), new)
    /\ snap' = IF rec # NullDoc /\ assertOwnership(rec, userId) = NoError
               THEN [snap EXCEPT ![id] = rec] ELSE snap
    /\ UNCHANGED <<now, nextId, purged, pag, tx, flight, http, conn, proc>>

Restore(id, userId) ==
    LET rec == findOne(docs, ById(id))
        new == preSave(ApplySet(rec, restoreUpdate), now)
    IN
    /\ Guarded("restore", id, userId, rec, Replace(docs, rec, new), new)
    /\ snap' = IF rec # NullDoc /\ assertOwnership(rec, userId) = NoError
               THEN [snap EXCEPT ![id] = NullDoc] ELSE snap
    /\ UNCHANGED <<now, nextId, purged, pag, tx, flight, http, conn, proc>>

HardDelete(id, userId) ==
    LET rec == findOne(docs, ById(id)) IN
    /\ Guarded("hardDelete", id, userId, rec, deleteOne(docs, rec), Void)
    /\ snap' = IF rec # NullDoc /\ assertOwnership(rec, userId) = NoError
               THEN [snap EXCEPT ![id] = NullDoc] ELSE snap
    /\ purged' = IF rec # NullDoc /\ assertOwnership(rec, userId) = NoError
                 THEN purged \cup {id} ELSE purged
    /\ UNCHANGED <<now, nextId, pag, tx, flight, http, conn, proc>>

\* The ids a caller may name: those handed out so far and one never handed out.
TargetIds == {id \in Ids : id <= nextId}

\* ------------------------------------------- concurrent requests by userId
\* Each request runs its awaited storage calls one at a time; between two of them the
\* calls of the other request may run. A storage call is atomic on its document.
Pending(op, userId, id, fields, loaded) ==
    [op |-> op, pc |-> "pending", user |-> userId, id |-> id, fields |-> fields, loaded |-> loaded]

\* getOrCreateProfile up to its first await: findProfileByUserId.
GetOrCreateFind(c, userId) ==
    LET existing == findOne(docs, ActiveProfile(userId)) IN
    /\ flight[c].pc = "idle"
    /\ IF existing # NullDoc
       THEN /\ last' = Call("getOrCreateProfile", userId, existing._id, NoError, existing, NullDoc)
            /\ UNCHANGED flight
       ELSE /\ flight' = [flight EXCEPT
                           ![c] = Pending("getOrCreateProfile", userId, 0, [userId |-> userId], NullDoc)]
            /\ UNCHANGED last
    /\ UNCHANGED <<docs, now, nextId, snap, denials, purged, pag, tx, http, conn, proc>>

\* An update up to its first await: findOneAndUpdate on the caller's active profile.
UpdateFind(c, op, userId, set, fields) ==
    LET f == ActiveProfile(userId)
        before == findOne(docs, f)
        after == updateOne(docs, f, set, now)
    IN
    /\ flight[c].pc = "idle"
    /\ IF before # NullDoc
       THEN /\ docs' = after
            /\ last' = Call(op, userId, before._id, NoError, findOne(after, f), before)
            /\ UNCHANGED flight
       ELSE /\ flight' = [flight EXCEPT
                           ![c] = Pending(op, userId, 0, Spread([userId |-> userId], fields), NullDoc)]
            /\ UNCHANGED <<docs, last>>
    /\ snap' = IF before = NullDoc THEN snap ELSE [snap EXCEPT ![before._id] = NullDoc]
    /\ UNCHANGED <<now, nextId, denials, purged, pag, tx, http, conn, proc>>

UpdateProfileFind(c, userId, input) ==
    UpdateFind(c, "updateProfile", userId, Spread(input, touchUpdatedAt(now)), input)

UpdateSkillsFind(c, userId, input) ==
    UpdateFind(c, "updateSkills", userId, SkillsSet(input), [skills |-> input.skills])

UpdatePreferencesFind(c, userId, input) ==
    UpdateFind(c, "updatePreferences", userId, PreferencesSet(userId, input),
               [preferences |-> input.preferences])

Creators == {"getOrCreateProfile", "updateProfile", "updateSkills", "updatePreferences"}

\* The second await of a request that found no profile: new UserProfile(...).save().
SaveStep(c) ==
    /\ flight[c].pc = "pending"
    /\ flight[c].op \in Creators
    /\ SaveNew(flight[c].op, flight[c].user, flight[c].fields)
    /\ flight' = [flight EXCEPT ![c] = FlightIdle]
    /\ UNCHANGED <<now, snap, denials, purged, pag, tx, http, conn, proc>>

\* The creating calls of concurrent requests, interleaved at their awaits.
NextRace ==
    \/ \E c \in Callers, u \in Users : GetOrCreateFind(c, u)
    \/ \E c \in Callers, u \in Users, input \in UpdateProfileInputs : UpdateProfileFind(c, u, input)
    \/ \E c \in Callers, u \in Users, input \in SkillsInputs : UpdateSkillsFind(c, u, input)
    \/ \E c \in Callers, u \in Users, input \in PreferencesInputs : UpdatePreferencesFind(c, u, input)
    \/ \E c \in Callers : SaveStep(c)

SpecRace == Init /\ [][NextRace]_vars

\* restore(id, userId) up to its write: the load by id, deleted records included, and
\* assertOwnership.
RestoreLoad(c, id, userId) ==
    LET rec == findOne(docs, ById(id))
        error == IF rec = NullDoc THEN NotFoundError("Resource") ELSE assertOwnership(rec, userId)
    IN
    /\ flight[c].pc = "idle"
    /\ IF error # NoError
       THEN /\ last' = Call("restore", userId, id, error, Void, rec)
            /\ UNCHANGED flight
       ELSE /\ flight' = [flight EXCEPT ![c] = Pending("restore", userId, id, <<>>, rec)]
            /\ UNCHANGED last
    /\ UNCHANGED <<docs, now, nextId, snap, denials, purged, pag, tx, http, conn, proc>>

\* The write of a restore: { $set: restoreUpdate() } on the loaded record.
RestoreWrite(c) ==
    LET id == flight[c].id
        after == updateOne(docs, ById(id), restoreUpdate, now)
    IN
    /\ flight[c].pc = "pending"
    /\ flight[c].op = "restore"
    /\ docs' = after
    /\ last' = Call("restore", flight[c].user, id, NoError, findOne(after, ById(id)),
                     flight[c].loaded)
    /\ snap' = [snap EXCEPT ![id] = NullDoc]
    /\ flight' = [flight EXCEPT ![c] = FlightIdle]
    /\ UNCHANGED <<now, nextId, denials, purged, pag, tx, http, conn, proc>>

\* Soft deletes and restores of the same records by concurrent requests.
NextRestoreRace ==
    \/ \E u \in Users : CreateProfile(u)
    \/ \E u \in Users : DeleteProfile(u)
    \/ \E c \in Callers, id \in TargetIds, u \in Users : RestoreLoad(c, id, u)
    \/ \E c \in Callers : RestoreWrite(c)

SpecRestoreRace == Init /\ [][NextRestoreRace]_vars

\* The profile services, with the restore of the lifecycle.
Next ==
    \/ Tick
    \/ \E u \in Users : GetProfileByUserId(u)
    \/ \E u \in Users : FindProfileByUserId(u)
    \/ \E u \in Users : ProfileExists(u)
    \/ \E u \in Users : CreateProfile(u)
    \/ \E u \in Users : GetOrCreateProfile(u)
    \/ \E u \in Users, input \in UpdateProfileInputs : UpdateProfile(u, input)
    \/ \E u \in Users : DeleteProfile(u)
    \/ \E id \in TargetIds, u \in Users : Restore(id, u)

Spec == Init /\ [][Next]_vars

\* The ownership-guarded operations by id, next to the services' writes by userId.
NextGuard ==
    \/ \E u \in Users : CreateProfile(u)
    \/ \E u \in Users, input \in UpdateProfileInputs : UpdateProfile(u, input)
    \/ \E u \in Users : DeleteProfile(u)
    \/ \E id \in TargetIds, u \in Users, patch \in UpdateProfileInputs : Update(id, u, patch)
    \/ \E id \in TargetIds, u \in Users : SoftDelete(id, u)
    \/ \E id \in TargetIds, u \in Users : Restore(id, u)
    \/ \E id \in TargetIds, u \in Users : HardDelete(id, u)

SpecGuard == Init /\ [][NextGuard]_vars

\* ------------------------------------------------------ paginate, called
\* A collection of some entity as the services leave it: _ids in order of creation,
\* createdAt never decreasing with the _id, a deleted record stamped at deletion.
Item(id, t, deleted) ==
    [_id |-> id, userId |-> IF id % 2 = 1 THEN "u1" ELSE "u2", headline |-> Undefined,
     createdAt |-> Date(t), updatedAt |-> IF deleted THEN Date(MaxTime) ELSE Date(t),
     isDeleted |-> deleted, deletedAt |-> IF deleted THEN Date(MaxTime) ELSE Null]

Collections ==
    UNION {{{Item(i, ts[i], ds[i]) : i \in 1..n} :
               ts \in {f \in [1..n -> Times] : \A i, j \in 1..n : i <= j => f[i] <= f[j]},
               ds \in [1..n -> BOOLEAN]} : n \in 0..MaxItems}

Queries ==
    {<<>>, [userId |-> Eq("u1")], [isDeleted |-> Eq(TRUE)], [isDeleted |-> Eq(FALSE)],
     [userId |-> Eq("u1"), isDeleted |-> Eq(TRUE)]}

PageInputs == {0, 1, 2, 3}
LimitInputs == {0, 1, 2, MAX_LIMIT + 1}

\* Partial<PaginationOptions>: each of page, limit and order given or left out.
Options ==
    {Spread(Spread(p, l), o) :
        p \in {<<>>} \cup {[page |-> x] : x \in PageInputs},
        l \in {<<>>} \cup {[limit |-> x] : x \in LimitInputs},
        o \in {<<>>, [order |-> "asc"]}}

InitPaginate ==
    /\ docs \in Collections
    /\ now = MaxTime
    /\ nextId = Cardinality(docs) + 1
    /\ last = Call("none", "none", 0, NoError, Void, NullDoc)
    /\ snap = NoSnap
    /\ denials = {}
    /\ purged = {}
    /\ pag = PagIdle
    /\ tx = TxIdle
    /\ flight = NoFlight
    /\ http = HttpIdle
    /\ conn = ConnIdle
    /\ proc = ProcIdle

\* The error a query rejects with when the storage layer fails (no AppError).
StorageError == [kind |-> "MongoNetworkError", message |-> <<"connection lost">>,
                 statusCode |-> 0, code |-> "none"]

\* Faulty variant: the count is not awaited together with the find.
PromiseAll_IgnoresCount(countOk, findOk) == findOk

\* Promise.all([count, find]) fulfils when both queries fulfil and rejects otherwise.
PromiseAll(countOk, findOk) == countOk /\ findOk

\* The _ids of the documents the combined query matches.
MatchingIds(D, query) == {d._id : d \in Matching(D, combinedQuery(query))}

\* One call of paginate: countOk and findOk say whether the storage layer answers the
\* count and the find query; a rejection is thrown on and nothing is returned.
Paginate(query, options, countOk, findOk) ==
    /\ pag.pc = "idle"
    /\ IF PromiseAll(countOk, findOk)
       THEN \E result \in paginate(docs, query, options) :
                pag' = [pc |-> "done", query |-> query, options |-> options,
                        countOk |-> countOk, findOk |-> findOk, counted |-> TRUE,
                        found |-> TRUE, countedOn |-> MatchingIds(docs, query),
                        foundOn |-> MatchingIds(docs, query), error |-> NoError,
                        result |-> result]
       ELSE pag' = [pc |-> "failed", query |-> query, options |-> options,
                    countOk |-> countOk, findOk |-> findOk, counted |-> countOk,
                    found |-> findOk,
                    countedOn |-> IF countOk THEN MatchingIds(docs, query) ELSE {},
                    foundOn |-> IF findOk THEN MatchingIds(docs, query) ELSE {},
                    error |-> StorageError, result |-> Void]
    /\ UNCHANGED <<docs, now, nextId, last, snap, denials, purged, tx, flight, http, conn, proc>>

NextPaginate ==
    \E query \in Queries, options \in Options, countOk \in BOOLEAN, findOk \in BOOLEAN :
        Paginate(query, options, countOk, findOk)

SpecPaginate == InitPaginate /\ [][NextPaginate]_vars

\* ------------------------------------- paginate, with concurrent requests
\* Promise.all issues the count and the find query together; each reaches storage on
\* its own, in either order, and the writes of other requests may come in between.
PaginateBegin(query, options) ==
    /\ pag.pc = "idle"
    /\ pag' = [pag EXCEPT !.pc = "running", !.query = query, !.options = options]
    /\ UNCHANGED <<docs, now, nextId, last, snap, denials, purged, tx, flight, http, conn, proc>>

\* model.countDocuments(combinedQuery) reaches storage.
PaginateCount ==
    /\ pag.pc = "running" /\ ~pag.counted
    /\ \E result \in paginate(docs, pag.query, pag.options) :
           pag' = [pag EXCEPT !.counted = TRUE,
                              !.countedOn = MatchingIds(docs, pag.query),
                              !.result.pagination = result.pagination]
    /\ UNCHANGED <<docs, now, nextId, last, snap, denials, purged, tx, flight, http, conn, proc>>

\* model.find(combinedQuery).sort(...).skip(skip).limit(limit) reaches storage.
PaginateFind ==
    /\ pag.pc = "running" /\ ~pag.found
    /\ \E result \in paginate(docs, pag.query, pag.options) :
           pag' = [pag EXCEPT !.found = TRUE,
                              !.foundOn = MatchingIds(docs, pag.query),
                              !.result.items = result.items]
    /\ UNCHANGED <<docs, now, nextId, last, snap, denials, purged, tx, flight, http, conn, proc>>

\* Both queries have answered: paginate returns { items, pagination }.
PaginateReturn ==
    /\ pag.pc = "running" /\ PromiseAll(pag.counted, pag.found)
    /\ pag' = [pag EXCEPT !.pc = "done"]
    /\ UNCHANGED <<docs, now, nextId, last, snap, denials, purged, tx, flight, http, conn, proc>>

RaceOptions == {<<>>, [limit |-> 1], [page |-> 2, limit |-> 1]}

NextPaginateRace ==
    \/ \E query \in Queries, options \in RaceOptions : PaginateBegin(query, options)
    \/ PaginateCount
    \/ PaginateFind
    \/ PaginateReturn
    \/ \E u \in Users : CreateProfile(u)
    \/ \E u \in Users : DeleteProfile(u)

SpecPaginateRace == Init /\ [][NextPaginateRace]_vars

\* --------------------------------------------------- runInTransaction
\* A write of the work function: updateOne({ _id }, { $set }, { session }).
Write(id, set) == [id |-> id, set |-> set]

Writes == {Write(id, set) : id \in 1..2, set \in {[headline |-> "h1"], softDeleteUpdate(MaxTime)}}

RECURSIVE ApplyWrites(_, _)
ApplyWrites(D, ws) ==
    IF ws = <<>> THEN D
    ELSE ApplyWrites(updateOne(D, ById(Head(ws).id), Head(ws).set, MaxTime), Tail(ws))

BadRequestError(message) == AppError("BadRequestError", message, 400, "BAD_REQUEST")

WorkErrors == {BadRequestError(<<"Job is closed">>), NotFoundError("Job")}

\* The error of a commitTransaction / abortTransaction call that fails.
CommitError == [kind |-> "MongoServerError", message |-> <<"commit failed">>,
                statusCode |-> 0, code |-> "none"]

\* A work function: the writes it issues in order, the write at which it throws
\* (failAt, 0 when it throws at none) and what it throws or returns.
SeqsUpTo(S, n) == UNION {[1..k -> S] : k \in 0..n}

Works ==
    {[writes |-> ws, failAt |-> 0, err |-> NoError, ret |-> r] :
        ws \in SeqsUpTo(Writes, MaxWrites), r \in {"r1", "r2"}}
    \cup
    UNION {{[writes |-> ws, failAt |-> k, err |-> e, ret |-> "none"] :
               k \in 1..Len(ws), e \in WorkErrors} : ws \in SeqsUpTo(Writes, MaxWrites)}

\* Faulty variant: the write is issued without the session option and reaches storage at once.
WriteInSession_NoSession(D, pending, w) ==
    [docs |-> updateOne(D, ById(w.id), w.set, MaxTime), pending |-> pending]

\* A write issued with the session option is held by the session until the commit.
WriteInSession(D, pending, w) == [docs |-> D, pending |-> Append(pending, w)]

\* Faulty variant: the commit call is made after the try block, so its failure is not caught.
AfterCommit_Uncaught(ok) == "finally"

\* try { ...; commit } catch: a failed commit is caught like an error of work.
AfterCommit(ok) == IF ok THEN "finally" ELSE "catch"

\* Faulty variant: endSession() is the last statement of the catch block instead of a finally
\* block, so an abort call that raises skips it.
AfterAbort_NoFinally(raised) == IF raised THEN "done" ELSE "finally"

\* catch { abort; throw } finally { endSession }: the finally block runs whether
\* or not the abort call raised.
AfterAbort(raised) == "finally"

\* Faulty variant: the caught error is wrapped in an error of the coordinator.
Rethrow_Wrapped(error) ==
    AppError("InternalError", <<"Transaction failed">>, 500, "INTERNAL_ERROR")

\* The error the coordinator throws for a caught error.
Rethrow(error) == error

\* Faulty variant: the result of work is dropped.
Returned_Dropped(value) == Undefined

\* The value the coordinator returns for the value work returned.
Returned(value) == value

Return(value) == [kind |-> "return", error |-> NoError, value |-> value]
Throw(error) == [kind |-> "throw", error |-> error, value |-> "none"]

\* Collections a transaction may start on.
Profile(id, userId, headline) ==
    [_id |-> id, userId |-> userId, headline |-> headline, createdAt |-> Date(1),
     updatedAt |-> Date(1), isDeleted |-> FALSE, deletedAt |-> Null]

TxStores ==
    {S \in SUBSET {Profile(1, "u1", Undefined), Profile(1, "u1", "h1"),
                   Profile(2, "u2", Undefined), Profile(2, "u2", "h1")} :
        \A a, b \in S : a._id = b._id => a = b}

InitTx ==
    /\ docs \in TxStores
    /\ now = MaxTime
    /\ nextId = 3
    /\ last = Call("none", "none", 0, NoError, Void, NullDoc)
    /\ snap = NoSnap
    /\ denials = {}
    /\ purged = {}
    /\ pag = PagIdle
    /\ tx = TxIdle
    /\ flight = NoFlight
    /\ http = HttpIdle
    /\ conn = ConnIdle
    /\ proc = ProcIdle

\* startSession(); startTransaction(); the work function is entered.
TxBegin(work) ==
    /\ tx.pc = "idle"
    /\ tx' = [TxIdle EXCEPT !.pc = "work", !.work = work, !.before = docs, !.state = "active"]
    /\ UNCHANGED <<docs, now, nextId, last, snap, denials, purged, pag, flight, http, conn, proc>>

\* work issues its next write.
TxWrite ==
    LET k == Len(tx.issued) + 1
        w == WriteInSession(docs, tx.pending, tx.work.writes[k])
    IN
    /\ tx.pc = "work"
    /\ k <= Len(tx.work.writes)
    /\ tx.work.failAt # k
    /\ docs' = w.docs
    /\ tx' = [tx EXCEPT !.pending = w.pending, !.issued = Append(@, tx.work.writes[k])]
    /\ UNCHANGED <<now, nextId, last, snap, denials, purged, pag, flight, http, conn, proc>>

\* work throws at its next write.
TxWorkThrows ==
    /\ tx.pc = "work"
    /\ tx.work.failAt = Len(tx.issued) + 1
    /\ tx' = [tx EXCEPT !.pc = "catch", !.caught = tx.work.err]
    /\ UNCHANGED <<docs, now, nextId, last, snap, denials, purged, pag, flight, http, conn, proc>>

\* work returns.
TxWorkReturns ==
    /\ tx.pc = "work"
    /\ tx.work.failAt = 0
    /\ Len(tx.issued) = Len(tx.work.writes)
    /\ tx' = [tx EXCEPT !.pc = "commit"]
    /\ UNCHANGED <<docs, now, nextId, last, snap, denials, purged, pag, flight, http, conn, proc>>

\* commitTransaction(): it succeeds and the pending writes reach storage together,
\* or it fails and none does.
TxCommit(ok) ==
    /\ tx.pc = "commit"
    /\ IF ok
       THEN /\ docs' = ApplyWrites(docs, tx.pending)
            /\ tx' = [tx EXCEPT !.pc = AfterCommit(TRUE), !.state = "committed",
                                !.commits = @ + 1, !.pending = <<>>,
                                !.outcome = Return(Returned(tx.work.ret))]
       ELSE /\ docs' = docs
            /\ tx' = [tx EXCEPT !.pc = AfterCommit(FALSE), !.caught = CommitError,
                                !.outcome = Throw(CommitError)]
    /\ UNCHANGED <<now, nextId, last, snap, denials, purged, pag, flight, http, conn, proc>>

\* catch: abortTransaction() drops the pending writes; the call itself may raise,
\* and the caught error is thrown on either way.
TxAbort(raised) ==
    /\ tx.pc = "catch"
    /\ tx' = [tx EXCEPT !.pc = AfterAbort(raised), !.state = "aborted", !.aborts = @ + 1,
                        !.abortRaised = raised, !.pending = <<>>,
                        !.outcome = Throw(Rethrow(tx.caught))]
    /\ UNCHANGED <<docs, now, nextId, last, snap, denials, purged, pag, flight, http, conn, proc>>

\* finally: endSession().
TxEndSession ==
    /\ tx.pc = "finally"
    /\ tx' = [tx EXCEPT !.pc = "done", !.released = @ + 1]
    /\ UNCHANGED <<docs, now, nextId, last, snap, denials, purged, pag, flight, http, conn, proc>>

NextTx ==
    \/ \E work \in Works : TxBegin(work)
    \/ TxWrite
    \/ TxWorkThrows
    \/ TxWorkReturns
    \/ \E ok \in BOOLEAN : TxCommit(ok)
    \/ \E raised \in BOOLEAN : TxAbort(raised)
    \/ TxEndSession

SpecTx == InitTx /\ [][NextTx]_vars

\* ------------------------------------------- asyncHandler and errorHandler
ConflictError(message) == AppError("ConflictError", message, 409, "CONFLICT")

DatabaseError(message) == AppError("DatabaseError", message, 500, "DATABASE_ERROR")

ValidationError(message) == AppError("ValidationError", message, 400, "VALIDATION_ERROR")

\* A validation library's own error (no AppError).
ZodError == [kind |-> "ZodError", message |-> <<"invalid input">>, statusCode |-> 0,
             code |-> "none"]

\* An Error object as the handlers see it: the error, its details object (the empty
\* tuple for undefined) and its stack (the empty tuple for none).
Raised(error, details, stack) == [error |-> error, details |-> details, stack |-> stack]

AppErrorKinds ==
    {"BadRequestError", "ValidationError", "ForbiddenError", "NotFoundError", "ConflictError",
     "InternalError", "DatabaseError"}

\* Faulty variant: every error is taken for an AppError.
isAppError_Always(err) == TRUE

\* error instanceof AppError
isAppError(err) == err.error.kind \in AppErrorKinds

\* isOperational is set to true by the constructor of AppError.
isOperationalError(err) == IF isAppError(err) THEN TRUE ELSE FALSE

\* new ValidationError(errors): the issues become the details.
formatZodError(err) ==
    Raised(ValidationError(<<"Validation failed">>), <<"errors">>, err.stack)

GenericMessage == <<"Internal server error">>

\* NODE_ENV
Envs == {"development", "production", "test"}

\* The status and the JSON body errorHandler sends for err.
errorHandler(err0, env) ==
    LET err == IF err0.error.kind = "ZodError" THEN formatZodError(err0) ELSE err0
        operational == isOperationalError(err)
        statusCode == IF isAppError(err) THEN err.error.statusCode ELSE 500
        code == IF isAppError(err) THEN err.error.code ELSE "INTERNAL_ERROR"
        message == IF isAppError(err) THEN err.error.message ELSE GenericMessage
        details == IF isAppError(err) THEN err.details ELSE <<>>
        base == [code |-> code, message |-> IF operational THEN message ELSE GenericMessage]
        withDetails == IF operational /\ details # <<>>
                       THEN Spread(base, [details |-> details]) ELSE base
        withStack == IF env = "development" /\ err.stack # <<>>
                     THEN Spread(withDetails, [stack |-> err.stack]) ELSE withDetails
    IN [status |-> statusCode, body |-> [success |-> FALSE, error |-> withStack]]

\* The errors a route handler raises.
HandlerErrors ==
    {NotFoundError("Profile"), ForbiddenError(<<"Forbidden">>),
     ConflictError(<<"Profile already exists">>), BadRequestError(<<"Job is closed">>),
     DatabaseError(<<"E11000 duplicate key user_profiles">>), MongoDuplicateKeyError,
     StorageError, ZodError}

Stacks == {<<>>, <<"at createProfile (mutations.ts)">>}

DetailsObjects == {<<>>, <<"collection", "user_profiles">>}

\* A route handler: an async function that resolves or rejects, or a function that
\* is not async and returns or throws before any promise exists.
Handlers ==
    {[mode |-> m, error |-> Raised(NoError, <<>>, <<>>)] : m \in {"resolves", "returns"}}
    \cup
    {[mode |-> m, error |-> Raised(e, d, st)] :
        m \in {"rejects", "throws"}, e \in HandlerErrors, d \in DetailsObjects, st \in Stacks}

\* Faulty variant: no rejection handler is attached to the promise.
CatchNext_Never(handler) == <<>>

\* Promise.resolve(fn(req, res, next)).catch(next): the calls of next the wrapper
\* makes once the promise of the handler has settled.
CatchNext(handler) == IF handler.mode = "rejects" THEN <<handler.error>> ELSE <<>>

\* The wrapper is called with a request: fn is called; a throw of fn leaves the
\* wrapper as it is, before Promise.resolve is reached.
HttpRequest(handler, env) ==
    /\ http.pc = "idle"
    /\ http' = IF handler.mode = "throws"
               THEN [http EXCEPT !.pc = "escaped", !.env = env, !.handler = handler,
                                 !.escaped = handler.error.error]
               ELSE [http EXCEPT !.pc = "pending", !.env = env, !.handler = handler]
    /\ UNCHANGED <<docs, now, nextId, last, snap, denials, purged, pag, tx, flight, conn, proc>>

\* The promise settles and its rejection handler, if it rejected, runs.
HttpSettle ==
    /\ http.pc = "pending"
    /\ http' = [http EXCEPT !.pc = IF CatchNext(http.handler) = <<>> THEN "finished" ELSE "errored",
                            !.nextCalls = @ \o CatchNext(http.handler)]
    /\ UNCHANGED <<docs, now, nextId, last, snap, denials, purged, pag, tx, flight, conn, proc>>

\* next(err) reaches the error middleware, which sends the response.
HttpErrorHandler ==
    /\ http.pc = "errored"
    /\ http' = [http EXCEPT !.pc = "responded",
                            !.response = errorHandler(http.nextCalls[1], http.env)]
    /\ UNCHANGED <<docs, now, nextId, last, snap, denials, purged, pag, tx, flight, conn, proc>>

NextHttp ==
    \/ \E handler \in Handlers, env \in Envs : HttpRequest(handler, env)
    \/ HttpSettle
    \/ HttpErrorHandler

SpecHttp == Init /\ [][NextHttp]_vars

\* ------------------------------------------- db/connection.ts and index.ts
MAX_RETRIES == 5
INITIAL_RETRY_DELAY == 1000

\* The errors mongoose.connect rejects with.
ConnectErrors ==
    {StorageError,
     [kind |-> "MongoServerSelectionError", message |-> <<"server selection timed out">>,
      statusCode |-> 0, code |-> "none"]}

\* Faulty variant: the delay does not grow.
RetryDelay_Constant(retries) == INITIAL_RETRY_DELAY

\* INITIAL_RETRY_DELAY * Math.pow(2, retries - 1)
RetryDelay(retries) == INITIAL_RETRY_DELAY * 2 ^ (retries - 1)

\* new Error("Failed to connect to MongoDB"), after the loop
FailedToConnect == [kind |-> "Error", message |-> <<"Failed to connect to MongoDB">>,
                    statusCode |-> 0, code |-> "none"]

\* startServer() calls connectDatabase(): the loop is entered with retries = 0.
StartServer ==
    /\ proc.pc = "idle"
    /\ proc' = [proc EXCEPT !.pc = "connecting"]
    /\ conn' = [ConnIdle EXCEPT !.pc = IF 0 < MAX_RETRIES THEN "attempt" ELSE "exhausted"]
    /\ UNCHANGED <<docs, now, nextId, last, snap, denials, purged, pag, tx, flight, http>>

\* One pass of the loop body: mongoose.connect resolves, or it rejects with error
\* and the catch block counts the failure, throws on the last and sleeps otherwise.
ConnectAttempt(ok, error) ==
    /\ conn.pc = "attempt"
    /\ conn' = IF ok
               THEN [conn EXCEPT !.pc = "returned", !.attempts = @ + 1, !.isConnected = TRUE,
                                 !.outcome = [kind |-> "return", error |-> NoError]]
               ELSE [conn EXCEPT !.pc = IF conn.retries + 1 = MAX_RETRIES THEN "thrown"
                                        ELSE "sleeping",
                                 !.attempts = @ + 1, !.retries = @ + 1,
                                 !.errors = Append(@, error),
                                 !.outcome = IF conn.retries + 1 = MAX_RETRIES
                                             THEN [kind |-> "throw", error |-> error]
                                             ELSE @]
    /\ UNCHANGED <<docs, now, nextId, last, snap, denials, purged, pag, tx, flight, http, proc>>

\* await sleep(delay) is over and the loop condition is tested again.
ConnectSleep ==
    /\ conn.pc = "sleeping"
    /\ conn' = IF conn.retries < MAX_RETRIES
               THEN [conn EXCEPT !.pc = "attempt", !.waits = Append(@, RetryDelay(conn.retries))]
               ELSE [conn EXCEPT !.pc = "exhausted", !.waits = Append(@, RetryDelay(conn.retries)),
                                 !.outcome = [kind |-> "throw", error |-> FailedToConnect]]
    /\ UNCHANGED <<docs, now, nextId, last, snap, denials, purged, pag, tx, flight, http, proc>>

\* connectDatabase returned: the app is created and listens, and the signal
\* handlers of index.ts are registered.
Listen ==
    /\ proc.pc = "connecting" /\ conn.pc = "returned"
    /\ proc' = [proc EXCEPT !.pc = "running", !.server = "listening", !.db = "connected"]
    /\ UNCHANGED <<docs, now, nextId, last, snap, denials, purged, pag, tx, flight, http, conn>>

\* connectDatabase threw: the catch block of startServer exits with code 1.
StartFailed ==
    /\ proc.pc = "connecting" /\ conn.pc \in {"thrown", "exhausted"}
    /\ proc' = [proc EXCEPT !.pc = "exited", !.exit = 1]
    /\ UNCHANGED <<docs, now, nextId, last, snap, denials, purged, pag, tx, flight, http, conn>>

\* A SIGTERM or SIGINT is delivered: every registered listener runs. The listener of
\* db/connection.ts calls disconnectDatabase(), which starts mongoose.disconnect()
\* unless readyState is 0; shutdown() of index.ts calls server.close(callback) and
\* arms the 10 second timer.
Signal(sig) ==
    /\ proc.pc \in {"running", "shutdown"}
    /\ proc.signals < MaxSignals
    /\ proc' = [proc EXCEPT !.pc = "shutdown", !.signals = @ + 1, !.timers = @ + 1,
                            !.db = IF @ = "connected" THEN "disconnecting" ELSE @,
                            !.server = IF @ = "listening" THEN "closing" ELSE @,
                            !.closing = @ + 1,
                            !.trace = @ \o (IF proc.db = "connected" THEN <<"db.disconnect">>
                                             ELSE <<>>)
                                        \o (IF proc.server = "listening" THEN <<"server.close">>
                                             ELSE <<>>)]
    /\ UNCHANGED <<docs, now, nextId, last, snap, denials, purged, pag, tx, flight, http, conn>>

\* mongoose.disconnect() completes: isConnected = false.
DbDisconnected ==
    /\ proc.pc \in {"shutdown", "callback"}
    /\ proc.db = "disconnecting"
    /\ proc' = [proc EXCEPT !.db = "disconnected", !.trace = Append(@, "db.disconnected")]
    /\ conn' = [conn EXCEPT !.isConnected = FALSE]
    /\ UNCHANGED <<docs, now, nextId, last, snap, denials, purged, pag, tx, flight, http>>

\* The server has closed: the callback of server.close runs and calls
\* disconnectDatabase().
ServerClosed ==
    /\ proc.pc = "shutdown" /\ proc.server = "closing"
    /\ proc' = [proc EXCEPT !.pc = "callback", !.server = "closed",
                            !.db = IF @ = "connected" THEN "disconnecting" ELSE @,
                            !.trace = Append(@, "server.closed")]
    /\ UNCHANGED <<docs, now, nextId, last, snap, denials, purged, pag, tx, flight, http, conn>>

\* await disconnectDatabase() is over in the callback: process.exit(0).
ExitClean ==
    /\ proc.pc = "callback" /\ proc.db = "disconnected"
    /\ proc' = [proc EXCEPT !.pc = "exited", !.exit = 0, !.trace = Append(@, "exit")]
    /\ UNCHANGED <<docs, now, nextId, last, snap, denials, purged, pag, tx, flight, http, conn>>

\* The 10 second timer fires before the callback has exited: process.exit(1).
ExitForced ==
    /\ proc.pc \in {"shutdown", "callback"} /\ proc.timers > 0
    /\ proc' = [proc EXCEPT !.pc = "exited", !.exit = 1, !.trace = Append(@, "exit")]
    /\ UNCHANGED <<docs, now, nextId, last, snap, denials, purged, pag, tx, flight, http, conn>>

ConnectStep ==
    \/ StartServer
    \/ \E ok \in BOOLEAN, error \in ConnectErrors : ConnectAttempt(ok, error)
    \/ ConnectSleep

NextServer ==
    \/ StartServer
    \/ \E ok \in BOOLEAN, error \in ConnectErrors : ConnectAttempt(ok, error)
    \/ ConnectSleep
    \/ Listen
    \/ StartFailed
    \/ \E sig \in {"SIGTERM", "SIGINT"} : Signal(sig)
    \/ DbDisconnected
    \/ ServerClosed
    \/ ExitClean
    \/ ExitForced

\* mongoose.connect settles (serverSelectionTimeoutMS) and the sleep timer fires.
SpecServer == Init /\ [][NextServer]_vars /\ WF_vars(ConnectStep)

\* ========================================================== the claims
Deleted(D) == {d \in D : d.isDeleted = TRUE}

Items(result) == {result.items[i] : i \in DOMAIN result.items}

\* C1: in every reachable state every record has isDeleted = TRUE exactly when its
\* deletedAt is not null, whatever creates, updates, soft-deletes and restores ran.
C1_FlagIffTimestamp == \A d \in docs : (d.isDeleted = TRUE) <=> (d.deletedAt # Null)

\* A restore has just cleared one soft-deleted record while another is still deleted.
C1_Witness ==
    /\ last.op = "restore" /\ Ok(last) /\ last.pre.isDeleted
    /\ Deleted(docs) # {}

\* C2, as claimed: whatever filter the caller passes, paginate returns no record
\* whose isDeleted is true and counts none.
C2_NeverReturnsDeleted ==
    pag.pc = "done" =>
        /\ Items(pag.result) \cap Deleted(docs) = {}
        /\ pag.result.pagination.total
               = Cardinality(Matching(docs, pag.query) \ Deleted(docs))

\* C2, amended: a filter that has no isDeleted clause is combined with the
\* exclusion, so no soft-deleted record is returned or counted; a filter that has
\* an isDeleted clause replaces the exclusion, and the caller's clause decides.
C2_ExcludedUnlessFilterNamesIsDeleted ==
    pag.pc = "done" =>
        /\ Items(pag.result) \subseteq Matching(docs, pag.query)
        /\ IF "isDeleted" \in DOMAIN pag.query
           THEN pag.result.pagination.total = Cardinality(Matching(docs, pag.query))
           ELSE /\ Items(pag.result) \cap Deleted(docs) = {}
                /\ pag.result.pagination.total
                       = Cardinality(Matching(docs, pag.query) \ Deleted(docs))

\* A call whose filter names no isDeleted, on a collection where the filter alone
\* matches a soft-deleted record, returned something.
C2_Witness ==
    /\ pag.pc = "done" /\ "isDeleted" \notin DOMAIN pag.query
    /\ Matching(docs, pag.query) \cap Deleted(docs) # {}
    /\ pag.result.items # <<>>

\* What the default reads of the profile services show of the record d.
InDefaultReads(d) ==
    /\ findOne(docs, ActiveProfile(d.userId)) = d
    /\ countDocuments(docs, ActiveProfile(d.userId)) > 0
    /\ \A r \in paginate(docs, [userId |-> Eq(d.userId)], <<>>) : d \in Items(r)

AbsentFromDefaultReads(d) ==
    /\ findOne(docs, ActiveProfile(d.userId)) = NullDoc
    /\ countDocuments(docs, ActiveProfile(d.userId)) = 0
    /\ \A r \in paginate(docs, [userId |-> Eq(d.userId)], <<>>) : d \notin Items(r)

\* A read that asks for deleted records too: no clause on isDeleted at all.
InReadsIncludingDeleted(d) == d \in Matching(docs, [userId |-> Eq(d.userId)])

\* What the caller of the last query saw, against the collection it read.
QueriesHideDeleted ==
    LET active == {d \in docs \ Deleted(docs) : d.userId = last.user} IN
    /\ last.op = "getProfileByUserId" =>
           IF active = {} THEN last.error = NotFoundError("Profile")
           ELSE Ok(last) /\ last.value \in active
    /\ last.op = "findProfileByUserId" =>
           IF active = {} THEN last.value = NullDoc ELSE last.value \in active
    /\ last.op = "profileExists" => last.value = [exists |-> active # {}]

\* The last call was a restore that cleared a soft-deleted record not touched since.
RestoredAfterSoftDelete ==
    /\ last.op = "restore" /\ Ok(last) /\ last.pre.isDeleted
    /\ last.was # NullDoc

\* C8, as claimed: soft delete hides the record from the default reads and keeps it
\* stored; restore brings it back with every field as it was before the soft delete.
C8_RestoreIsExactRoundTrip ==
    /\ \A d \in Deleted(docs) : AbsentFromDefaultReads(d) /\ InReadsIncludingDeleted(d)
    /\ QueriesHideDeleted
    /\ RestoredAfterSoftDelete => findOne(docs, ById(last.id)) = last.was

\* C8, amended: as claimed, except that updatedAt is not restored: each of the two
\* writes stamps it. Every field other than updatedAt is as before the soft delete.
C8_RestoreRoundTripButUpdatedAt ==
    /\ \A d \in Deleted(docs) : AbsentFromDefaultReads(d) /\ InReadsIncludingDeleted(d)
    /\ QueriesHideDeleted
    /\ RestoredAfterSoftDelete =>
           LET d == findOne(docs, ById(last.id)) IN
           /\ d.isDeleted = FALSE /\ d.deletedAt = Null
           /\ InDefaultReads(d)
           /\ \A k \in DOMAIN d \ {"updatedAt"} : d[k] = last.was[k]

\* A profile with a headline was soft-deleted by deleteProfile at one time and
\* restored at a later one.
C8_Witness ==
    /\ RestoredAfterSoftDelete
    /\ last.was.headline = "h1"
    /\ findOne(docs, ById(last.id)).updatedAt # last.was.updatedAt

\* C9, as claimed: a soft delete that matched no active record fails with NotFound.
C9_DeleteWithoutMatchIsNotFound ==
    (last.op = "deleteProfile" /\ last.pre = NullDoc) => last.error.kind = "NotFoundError"

\* The work function of the invocation threw (at one of its writes).
WorkThrew == tx.work.failAt # 0

\* C3: a transaction whose work throws after its first write (on the second) leaves
\* storage exactly as it was before the transaction: no write of it is ever visible,
\* neither while it runs nor after the abort.
C3_ThrowingWorkLeavesStorageUnchanged == WorkThrew => docs = tx.before

\* An invocation is over whose work issued one write that changes the collection
\* and threw on its second.
C3_Witness ==
    /\ tx.pc = "done" /\ tx.work.failAt = 2 /\ Len(tx.issued) = 1
    /\ ApplyWrites(tx.before, tx.issued) # tx.before

\* C4: every invocation ends its session exactly once: not before it is over, and
\* once when it is over, whether work returned or threw and whether the commit or the
\* abort call failed.
C4_SessionReleasedExactlyOnce ==
    /\ tx.pc \in {"work", "commit", "catch", "finally"} => tx.released = 0
    /\ tx.pc = "done" => tx.released = 1

\* An invocation is over whose commit call failed and whose abort call raised.
C4_Witness ==
    /\ tx.pc = "done" /\ tx.released = 1
    /\ tx.caught = CommitError /\ tx.abortRaised

\* C5: when work throws, the transaction is aborted (and never committed), the
\* session is released, and the caller is thrown the very error work threw.
C5_WorkErrorRethrownUnchanged ==
    (tx.pc = "done" /\ WorkThrew) =>
        /\ tx.state = "aborted" /\ tx.aborts = 1 /\ tx.commits = 0
        /\ tx.released = 1
        /\ tx.outcome = Throw(tx.work.err)

\* An invocation is over whose work threw NotFound on its second write.
C5_Witness ==
    /\ tx.pc = "done" /\ tx.work.failAt = 2
    /\ tx.work.err = NotFoundError("Job")

\* C6, as claimed: when work returns, the transaction is committed, its writes are
\* in storage, the caller gets the value work returned and abort is not invoked.
C6_ReturningWorkCommits ==
    (tx.pc = "done" /\ ~WorkThrew) =>
        /\ tx.state = "committed" /\ tx.aborts = 0
        /\ docs = ApplyWrites(tx.before, tx.work.writes)
        /\ tx.outcome = Return(tx.work.ret)

\* C6, amended: when work returns and the commit call succeeds, the transaction is
\* committed, all its writes reach storage together (none is visible before), the
\* caller gets the value work returned and abort is not invoked; when the commit call
\* fails, the transaction is aborted, no write is visible and the caller is thrown the
\* commit's error.
C6_ReturningWorkCommitsUnlessCommitFails ==
    /\ tx.pc \in {"work", "commit"} => docs = tx.before
    /\ (tx.pc = "done" /\ ~WorkThrew) =>
           IF tx.caught = NoError
           THEN /\ tx.state = "committed" /\ tx.commits = 1 /\ tx.aborts = 0
                /\ docs = ApplyWrites(tx.before, tx.work.writes)
                /\ tx.outcome = Return(tx.work.ret)
           ELSE /\ tx.caught = CommitError
                /\ tx.state = "aborted" /\ tx.commits = 0 /\ tx.aborts = 1
                /\ docs = tx.before
                /\ tx.outcome = Throw(CommitError)

\* An invocation is over whose work issued two writes and returned r2, and the
\* commit changed the collection.
C6_Witness ==
    /\ tx.pc = "done" /\ tx.state = "committed"
    /\ Len(tx.work.writes) = 2 /\ tx.work.ret = "r2"
    /\ docs # tx.before

\* C7: an invocation reaches exactly one terminal state, committed or aborted, never
\* both and never neither, and its session is released only after that; also when the
\* commit call itself fails.
C7_OneTerminalStateBeforeRelease ==
    /\ tx.commits + tx.aborts <= 1
    /\ tx.released > 0 => tx.commits + tx.aborts = 1
    /\ tx.state = "committed" <=> tx.commits = 1
    /\ tx.state = "aborted" <=> tx.aborts = 1
    /\ tx.pc = "done" => tx.state \in {"committed", "aborted"} /\ tx.released = 1

\* An invocation is over whose work returned and whose commit call failed.
C7_Witness ==
    /\ tx.pc = "done" /\ ~WorkThrew
    /\ tx.caught = CommitError /\ tx.state = "aborted"

GuardedOps == {"update", "softDelete", "restore", "hardDelete"}

\* The record the last guarded call loaded belongs to another user.
OwnershipMismatch ==
    /\ last.op \in GuardedOps
    /\ last.pre # NullDoc /\ last.pre.userId # last.user

C11_NonOwnerLeavesRecordsUntouched ==
    [][/\ \A d \in docs : d.userId # last'.user => d \in docs'
       /\ (last'.op \in GuardedOps /\ last'.error.kind = "ForbiddenError") => docs' = docs]_vars

\* An update by id was refused for ownership while both users have a record.
C11_Witness ==
    /\ last.op = "update" /\ last.error.kind = "ForbiddenError"
    /\ last.pre \in docs /\ last.pre.userId # last.user
    /\ \E d \in docs : d.userId = last.user

\* C12: a hard-deleted record is purged for good: no read finds it, not even one that
\* includes deleted records, in any later state, and a later restore, soft delete or
\* update by its id fails with NotFound.
C12_PurgedIsTerminal ==
    /\ \A id \in purged : Matching(docs, ById(id)) = {}
    /\ (last.op \in {"restore", "softDelete", "update"} /\ last.id \in purged) =>
           last.error = NotFoundError("Resource") /\ last.value = Void

\* A restore named the id of a purged record while another record is stored.
C12_Witness ==
    /\ last.op = "restore" /\ last.id \in purged
    /\ last.error.kind = "NotFoundError"
    /\ docs # {}

\* The page and limit the caller asked for, with the defaults for what it left out.
RequestedPage == IF "page" \in DOMAIN pag.options THEN pag.options.page ELSE 1

RequestedLimit == IF "limit" \in DOMAIN pag.options THEN pag.options.limit ELSE 20

\* The records a call with the filter of pag is to count and return: those the filter
\* matches, without the soft-deleted ones unless the filter has a clause on isDeleted.
Selected ==
    {d \in docs : Matches(d, pag.query) /\ ("isDeleted" \in DOMAIN pag.query \/ ~d.isDeleted)}

\* k is the least number of pages of l records that hold n records.
IsCeil(k, n, l) == k >= 0 /\ k * l >= n /\ (k > 0 => (k - 1) * l < n)

\* C13: the effective page is max(1, requested page or 1), the effective limit is
\* min(max(1, requested limit or 20), 100), the items start at (page - 1) * limit of
\* the sorted matching records, no request is refused for its page or limit, and the
\* metadata reports the effective page and limit.
C13_NormalizedPageAndLimit ==
    /\ (pag.pc # "idle" /\ pag.countOk /\ pag.findOk) => pag.pc = "done"
    /\ pag.pc = "done" =>
           LET page == pag.result.pagination.page
               limit == pag.result.pagination.limit
           IN
           /\ page = IF RequestedPage < 1 THEN 1 ELSE RequestedPage
           /\ limit = IF RequestedLimit < 1 THEN 1
                      ELSE IF RequestedLimit > 100 THEN 100 ELSE RequestedLimit
           /\ Skip(pag.options) = (page - 1) * limit
           /\ Len(pag.result.items) <= limit
           /\ \E s \in Sorted(Selected, EffectiveSort(pag.options), EffectiveOrder(pag.options)) :
                  \A i \in DOMAIN pag.result.items :
                      pag.result.items[i] = s[(page - 1) * limit + i]

\* A call with page 0 and a limit above 100 returned every record of the collection.
C13_Witness ==
    /\ pag.pc = "done"
    /\ "page" \in DOMAIN pag.options /\ pag.options.page = 0
    /\ "limit" \in DOMAIN pag.options /\ pag.options.limit > 100
    /\ Len(pag.result.items) = MaxItems

\* C14: for N matching records and effective limit L, pages = ceil(N / L); a page
\* before the last has exactly L items, the last has N mod L, or L when L divides N.
C14_PagesAndPageSizes ==
    pag.pc = "done" =>
        LET N == pag.result.pagination.total
            L == pag.result.pagination.limit
            page == pag.result.pagination.page
            pages == pag.result.pagination.pages
        IN
        /\ N = Cardinality(Selected)
        /\ IsCeil(pages, N, L)
        /\ page < pages => Len(pag.result.items) = L
        /\ page = pages => Len(pag.result.items) = IF N % L = 0 THEN L ELSE N % L

\* The last of several pages was requested and is shorter than the limit.
C14_Witness ==
    /\ pag.pc = "done"
    /\ pag.result.pagination.pages >= 2
    /\ pag.result.pagination.page = pag.result.pagination.pages
    /\ pag.result.pagination.total % pag.result.pagination.limit # 0

\* The scenario of 25 active and 3 soft-deleted records of one user, page 2, limit 10.
ScenarioRecord(i) == [Item(i, 1, i > 25) EXCEPT !.userId = "u1"]

ScenarioStore == {ScenarioRecord(i) : i \in 1..28}

ScenarioQuery == [userId |-> Eq("u1")]

ScenarioOptions == [page |-> 2, limit |-> 10]

ScenarioOrder == [i \in 1..25 |-> ScenarioRecord(26 - i)]

ScenarioResult == PaginatedResult(ScenarioStore, ScenarioQuery, ScenarioOptions, ScenarioOrder)

ScenarioHolds ==
    /\ ScenarioOrder \in Sorted(Matching(ScenarioStore, combinedQuery(ScenarioQuery)),
                                EffectiveSort(ScenarioOptions), EffectiveOrder(ScenarioOptions))
    /\ Len(ScenarioResult.items) = 10
    /\ \A i \in 1..10 : ~ScenarioResult.items[i].isDeleted
    /\ ScenarioResult.pagination = [page |-> 2, limit |-> 10, total |-> 25, pages |-> 3]

\* C15: a call whose filter has no clause on isDeleted returns and counts only records
\* that are not soft-deleted: they are in no items, and total and pages are those of
\* the active matching records alone; 25 active and 3 soft-deleted records of a user
\* give 10 items, total 25 and pages 3 for page 2 and limit 10.
C15_DeletedNotCounted ==
    /\ (pag.pc = "done" /\ "isDeleted" \notin DOMAIN pag.query) =>
           LET active == Matching(docs, pag.query) \ Deleted(docs) IN
           /\ Items(pag.result) \subseteq active
           /\ pag.result.pagination.total = Cardinality(active)
           /\ IsCeil(pag.result.pagination.pages, Cardinality(active),
                     pag.result.pagination.limit)
    /\ ScenarioHolds

\* A call whose filter has no clause on isDeleted, on a collection where the filter
\* alone matches a soft-deleted record and more active records than one page holds.
C15_Witness ==
    /\ pag.pc = "done" /\ "isDeleted" \notin DOMAIN pag.query
    /\ Matching(docs, pag.query) \cap Deleted(docs) # {}
    /\ pag.result.pagination.pages >= 2
    /\ pag.result.pagination.page = 2

\* C16: a page beyond the last is answered, not refused: items is empty and the
\* metadata is the effective page and limit, the true total and pages = ceil(total /
\* limit); on no matching record, items is empty and pages is 0 for every page.
C16_BeyondLastPageIsEmpty ==
    /\ (pag.pc # "idle" /\ pag.countOk /\ pag.findOk) => pag.pc = "done" /\ pag.error = NoError
    /\ pag.pc = "done" =>
           LET m == pag.result.pagination IN
           /\ m.page > m.pages =>
                  /\ pag.result.items = <<>>
                  /\ m.page = (IF RequestedPage < 1 THEN 1 ELSE RequestedPage)
                  /\ m.total = Cardinality(Selected)
                  /\ IsCeil(m.pages, m.total, m.limit)
           /\ Selected = {} => pag.result.items = <<>> /\ m.total = 0 /\ m.pages = 0

\* Page 3 was requested of a listing that has records and fewer than 3 pages.
C16_Witness ==
    /\ pag.pc = "done"
    /\ pag.result.pagination.page = 3
    /\ pag.result.pagination.pages \in {1, 2}
    /\ pag.result.items = <<>>

\* C17: the count and the find of one call use the same filter: total is the number
\* of the records items is taken from, items is the slice [skip, skip + limit) of
\* those records in sorted order, and its length is min(limit, max(0, total - skip)).
C17_TotalCountsWhatItemsAreTakenFrom ==
    pag.pc = "done" =>
        LET m == pag.result.pagination
            skip == (m.page - 1) * m.limit
        IN
        /\ m.total = Cardinality(Selected)
        /\ \E s \in Sorted(Selected, EffectiveSort(pag.options), EffectiveOrder(pag.options)) :
               pag.result.items = SubSeq(s, skip + 1, Min(Len(s), skip + m.limit))
        /\ Len(pag.result.items) = Min(m.limit, Max(0, m.total - skip))

\* An ascending listing with a filter returned a window that leaves records out on
\* a collection holding records the filter does not match.
C17_Witness ==
    /\ pag.pc = "done" /\ "order" \in DOMAIN pag.options
    /\ pag.query # <<>> /\ Selected # docs
    /\ pag.result.items # <<>>
    /\ Len(pag.result.items) < pag.result.pagination.total

\* C18: when the count query or the find query fails, paginate throws and returns
\* nothing: no items, no total, no metadata; a result is returned only when both
\* queries succeeded.
C18_FailedQueryFailsTheCall ==
    /\ (pag.pc # "idle" /\ ~(pag.countOk /\ pag.findOk)) =>
           /\ pag.pc = "failed"
           /\ pag.error = StorageError
           /\ pag.result = Void
    /\ pag.pc = "done" => pag.countOk /\ pag.findOk

\* The find query succeeded and the count query failed on a collection with records.
C18_Witness ==
    /\ pag.pc = "failed" /\ pag.findOk /\ ~pag.countOk
    /\ Matching(docs, combinedQuery(pag.query)) # {}

\* C19: the userId of a record is the caller's at creation and never changes: every
\* step leaves the userId of every stored record as it was, and a record that a step
\* adds carries the userId of the caller of that step.
C19_OwnerNeverChanges ==
    [][/\ \A d \in docs : \A e \in docs' : e._id = d._id => e.userId = d.userId
       /\ \A e \in docs' : (\A d \in docs : d._id # e._id) => e.userId = last'.user]_vars

\* An update by its owner gave a record a headline while the other user has a record.
C19_Witness ==
    /\ last.op = "updateProfile" /\ Ok(last)
    /\ last.pre # NullDoc /\ last.pre.headline = Undefined
    /\ last.value.headline = "h1" /\ last.value.userId = last.pre.userId
    /\ Cardinality(docs) = 2

\* The active profiles of the caller of the last call, in the collection it left.
ActiveOfCaller == {d \in docs \ Deleted(docs) : d.userId = last.user}

Lookups == {"getProfileByUserId", "findProfileByUserId"}

C21_DuplicateCreateIsConflict ==
    (last.op = "createProfile" /\ ~Ok(last)) =>
        /\ last.error.kind = "ConflictError" /\ last.error.statusCode = 409
        /\ \E d \in docs : d.userId = last.user

\* C30, as claimed: getOrCreateProfile completes and returns an active profile of
\* its caller, also for a user whose profile was soft-deleted before.
C30_GetOrCreateYieldsActiveProfile ==
    last.op = "getOrCreateProfile" =>
        /\ Ok(last)
        /\ last.value.userId = last.user /\ last.value.isDeleted = FALSE

\* The error the error middleware was given, when a response was sent.
Handled == http.nextCalls[1]

ClientErrorStatus ==
    [NotFoundError |-> 404, ForbiddenError |-> 403, ConflictError |-> 409, BadRequestError |-> 400]

\* The error is a persistence failure: a DatabaseError or an error of the driver.
PersistenceFailure(err) ==
    err.error.kind \in {"DatabaseError", "MongoServerError", "MongoNetworkError"}

\* C22, as claimed: NotFound, Forbidden, Conflict and BadRequest are answered with
\* 404, 403, 409 and 400 and their own message; every persistence failure is answered
\* with a 5xx that carries the generic message and no details and no stack.
C22_PersistenceFailuresAreGeneric ==
    http.pc = "responded" =>
        LET body == http.response.body.error IN
        /\ Handled.error.kind \in DOMAIN ClientErrorStatus =>
               /\ http.response.status = ClientErrorStatus[Handled.error.kind]
               /\ body.message = Handled.error.message
        /\ PersistenceFailure(Handled) =>
               /\ http.response.status >= 500
               /\ body.message = GenericMessage
               /\ DOMAIN body = {"code", "message"}

\* C22, amended: the four client errors are answered with their status and their own
\* message; an untyped error of the driver is answered with 500, the generic message
\* and no details; a DatabaseError is answered with 500 and with its own message and
\* its details object, since every AppError is operational; the stack of the error
\* is part of the answer exactly when NODE_ENV is development and the error has one.
C22_OnlyUntypedErrorsAreGeneric ==
    http.pc = "responded" =>
        LET body == http.response.body.error IN
        /\ Handled.error.kind \in DOMAIN ClientErrorStatus =>
               /\ http.response.status = ClientErrorStatus[Handled.error.kind]
               /\ body.message = Handled.error.message
        /\ Handled.error.kind \in {"MongoServerError", "MongoNetworkError"} =>
               /\ http.response.status = 500
               /\ body.code = "INTERNAL_ERROR" /\ body.message = GenericMessage
               /\ "details" \notin DOMAIN body
        /\ Handled.error.kind = "DatabaseError" =>
               /\ http.response.status = 500
               /\ body.code = "DATABASE_ERROR" /\ body.message = Handled.error.message
               /\ "details" \in DOMAIN body <=> Handled.details # <<>>
        /\ "stack" \in DOMAIN body <=> (http.env = "development" /\ Handled.stack # <<>>)

\* In production an error of the driver that carries a stack was answered.
C22_Witness ==
    /\ http.pc = "responded" /\ http.env = "production"
    /\ Handled.error = MongoDuplicateKeyError /\ Handled.stack # <<>>
    /\ http.response.status = 500

\* C26, as claimed: whatever way the handler raises an error, a rejected promise or
\* a throw before a promise exists, the wrapper passes it to next exactly once, and
\* it does not call next when the handler completes normally.
C26_EveryErrorReachesNext ==
    http.pc \in {"escaped", "finished", "errored", "responded"} =>
        IF http.handler.mode \in {"rejects", "throws"}
        THEN http.nextCalls = <<http.handler.error>>
        ELSE http.nextCalls = <<>>

\* C26, amended: the error of a handler whose promise rejects is passed to next
\* exactly once; the wrapper does not call next when the handler completes normally;
\* an error thrown by the handler before it returns a promise is not passed to next
\* by the wrapper: it leaves the wrapper as a throw to its caller.
C26_RejectionsReachNextThrowsEscape ==
    /\ http.pc \in {"finished", "errored", "responded"} =>
           IF http.handler.mode = "rejects"
           THEN http.nextCalls = <<http.handler.error>> /\ http.escaped = NoError
           ELSE http.nextCalls = <<>> /\ http.escaped = NoError
    /\ http.pc = "escaped" =>
           /\ http.handler.mode = "throws"
           /\ http.nextCalls = <<>>
           /\ http.escaped = http.handler.error.error
    /\ http.handler.mode = "throws" => http.pc = "escaped"

\* A handler's promise rejected with NotFound and the error was passed to next.
C26_Witness ==
    /\ http.pc = "errored" /\ http.handler.mode = "rejects"
    /\ http.handler.error.error = NotFoundError("Profile")
    /\ Len(http.nextCalls) = 1

\* What holds of connectDatabase at every moment.
ConnectWithinFiveAttempts ==
    /\ conn.attempts <= 5
    /\ conn.attempts = Len(conn.errors) + (IF conn.pc = "returned" THEN 1 ELSE 0)
    /\ \A i \in DOMAIN conn.waits : conn.waits[i] = 1000 * 2 ^ (i - 1)
    /\ Len(conn.waits) <= 4
    /\ conn.pc = "attempt" => Len(conn.waits) = Len(conn.errors)
    /\ (conn.pc = "returned" /\ proc.pc = "connecting") =>
           conn.isConnected /\ conn.outcome.kind = "return"
    /\ conn.pc = "thrown" =>
           /\ Len(conn.errors) = 5 /\ Len(conn.waits) = 4
           /\ conn.outcome = [kind |-> "throw", error |-> conn.errors[5]]
    /\ conn.pc # "exhausted"
    /\ conn.outcome.error # FailedToConnect

\* C24: connectDatabase makes at most 5 attempts; it returns on the first that
\* succeeds, with isConnected true; after the k-th failure, k < 5, it waits
\* 1000 * 2^(k-1) ms before the next attempt; after the 5th failure it throws that
\* attempt's error without waiting; the throw after the loop is never reached; and
\* every call ends, returning or throwing.
C24_ConnectEndsWithinFiveAttempts ==
    /\ []ConnectWithinFiveAttempts
    /\ <>(conn.pc \in {"returned", "thrown"})

\* All five attempts failed, the last with another error than the first.
C24_Witness ==
    /\ conn.pc = "thrown"
    /\ conn.waits = <<1000, 2000, 4000, 8000>>
    /\ conn.errors[5] # conn.errors[1]

\* C25, as claimed: after a SIGTERM or SIGINT the database is disconnected only once
\* the HTTP server has closed, and the process exits with 0 only after both.
C25_DatabaseOutlivesServer ==
    /\ (proc.pc \in {"shutdown", "callback", "exited"} /\ proc.server # "none"
        /\ proc.db \in {"disconnecting", "disconnected"}) => proc.server = "closed"
    /\ proc.exit = 0 => proc.server = "closed" /\ proc.db = "disconnected"

ProfileWrites == {"updateProfile", "updateSkills", "updatePreferences", "deleteProfile"}

\* C27: updateProfile, updateSkills, updatePreferences and deleteProfile leave every
\* soft-deleted record as it is, field by field: a second deleteProfile does not
\* touch the first deletedAt.
C27_DeletedRecordsAreFrozen ==
    [][last'.op \in ProfileWrites => \A d \in Deleted(docs) : d \in docs']_vars

\* A second deleteProfile ran at a later time than the one that deleted the record.
C27_Witness ==
    /\ last.op = "deleteProfile" /\ last.pre = NullDoc
    /\ \E d \in Deleted(docs) : d.userId = last.user /\ d.deletedAt # Date(now)

ProfilesOf(u) == {d \in docs : d.userId = u}

\* C29: in every state there is at most one profile document per userId, whatever the
\* interleaving of getOrCreateProfile, updateProfile, updateSkills and
\* updatePreferences calls of a user who has no profile yet.
C29_OneProfilePerUser == \A u \in Users : Cardinality(ProfilesOf(u)) <= 1

\* A request that found no profile lost the race: its save was refused because another
\* request had created the user's (active) profile in between.
C29_Witness ==
    /\ last.op \in Creators /\ last.error = MongoDuplicateKeyError
    /\ \E d \in ProfilesOf(last.user) : ~d.isDeleted
    /\ Cardinality(ProfilesOf(last.user)) = 1

FlagMatchesTimestamp == \A d \in docs : d.isDeleted <=> d.deletedAt # Null

\* The record is in the state of the write that reached storage last.
LastWriteStands ==
    /\ last.op = "deleteProfile" /\ last.pre # NullDoc
          => \E d \in docs : d._id = last.id /\ d.isDeleted /\ d.deletedAt # Null
    /\ last.op = "restore" /\ Ok(last)
          => \E d \in docs : d._id = last.id /\ ~d.isDeleted /\ d.deletedAt = Null

\* The deleted state of a record changes only by the write of a soft delete or restore.
OnlyWritesFlip ==
    \A d \in docs : \A e \in docs' :
        e._id = d._id /\ e.isDeleted # d.isDeleted
            => /\ last'.id = d._id
               /\ \/ last'.op = "deleteProfile" /\ e.isDeleted
                  \/ last'.op = "restore" /\ ~e.isDeleted

\* C23: under every interleaving of soft deletes and restores of one record, the record
\* is in the state written by the last write that reached storage, no state mixes the
\* two writes, and isDeleted is true exactly when deletedAt is set in every state.
C23_LastWriteWins == [](FlagMatchesTimestamp /\ LastWriteStands) /\ [][OnlyWritesFlip]_vars

\* A restore loaded the record while it was active, a soft delete came in between, and
\* the restore's write reached storage last: the record is active.
C23_Witness ==
    /\ last.op = "restore" /\ Ok(last)
    /\ last.pre # NullDoc /\ ~last.pre.isDeleted /\ last.was # NullDoc
    /\ \E d \in docs : d._id = last.id /\ ~d.isDeleted

ReturnedItems == Len(pag.result.items)

ReturnedTotal == pag.result.pagination.total

ReturnedSkip == (pag.result.pagination.page - 1) * pag.result.pagination.limit

ExpectedItems(total) == Min(pag.result.pagination.limit, Max(0, total - ReturnedSkip))

\* C28 as claimed: whatever another request writes between the count and the find
\* query, the number of items is min(limit, max(0, total - skip)) for the total of the
\* same result, and never exceeds that total.
C28_ItemsAgreeWithTotal ==
    pag.pc = "done" =>
        ReturnedItems = ExpectedItems(ReturnedTotal) /\ ReturnedItems <= ReturnedTotal

\* C28 as the code has it: total is the number of matches when the count query ran,
\* the items are the window of the matches when the find query ran, so the items never
\* exceed the limit; the two agree as claimed when both queries saw the same matches.
C28_EachQueryIsConsistentOnItsOwn ==
    pag.pc = "done" =>
        /\ ReturnedTotal = Cardinality(pag.countedOn)
        /\ ReturnedItems = ExpectedItems(Cardinality(pag.foundOn))
        /\ {pag.result.items[i]._id : i \in DOMAIN pag.result.items} \subseteq pag.foundOn
        /\ ReturnedItems <= pag.result.pagination.limit
        /\ pag.countedOn = pag.foundOn
              => ReturnedItems = ExpectedItems(ReturnedTotal) /\ ReturnedItems <= ReturnedTotal

\* A record was created between the count and the find of one call: the result has
\* more items than its total.
C28_Witness ==
    /\ pag.pc = "done"
    /\ pag.countedOn # pag.foundOn
    /\ ReturnedItems > ReturnedTotal

====
